---- MODULE Spec2Model ----
(***************************************************************************)
(* Reward and streak engine of the ProductiveCasino backend                *)
(* (backend/api/wallet.py, backend/api/auth.py, backend/models/schemas.py).*)
(*                                                                         *)
(* The store (Supabase) is a remote service shared by every server worker: *)
(* each `.execute()` is one atomic step, and requests served by different  *)
(* workers interleave between their store calls.                           *)
(*                                                                         *)
(* Time is counted in ticks; TicksPerDay ticks make one UTC calendar day.  *)
(* A float multiplier is named by its value in tenths (12 is 1.2).         *)
(*                                                                         *)
(* Specifications:                                                         *)
(*   Spec        register, earn and stats requests served concurrently     *)
(*   FnSpec      the helper functions applied to drawn inputs              *)
(*   ClientSpec  one request of any kind against a store with a history    *)
(*   ReadSpec    history and stats requests, one after the other, against  *)
(*               a store with a history                                    *)
(*   EarnSpec    earn requests of one user with a history, served          *)
(*               concurrently within one instant                           *)
(*   WalkSpec    calculate_user_streak step by step, one action per turn   *)
(*               of its loop, under weak fairness                          *)
(***************************************************************************)
EXTENDS Integers, Sequences, FiniteSets, TLC

\* ------------------------------------------------------------- bounds
NumUsers == 1
NumWorkers == 2
MaxCalls == 2
MaxFaults == 1
MaxNow == 1
TicksPerDay == 2
MaxRun == 62
RecentDays == 2
MaxStreak == 32

Users == 1..NumUsers
Procs == 1..NumWorkers

\* ------------------------------------------------------------- schemas.py
ActivityType == {"pomodoro_25min", "exercise_30min", "study_1h", "deep_work_2h"}

\* a request body as it arrives: any string may stand in activity_type;
\* the requests tried carry one known type or an unknown one
RequestTypes == {"pomodoro_25min", "unknown"}

ActivityCreate_any(t) == TRUE

\* pydantic validation of ActivityCreate.activity_type
ActivityCreate_valid(t) == t \in ActivityType

\* ------------------------------------------------------------- wallet.py tables
ACTIVITY_COINS ==
    [t \in ActivityType |->
        CASE t = "pomodoro_25min" -> 50
          [] t = "exercise_30min" -> 75
          [] t = "study_1h"       -> 100
          [] t = "deep_work_2h"   -> 200]

\* dict literal, in declaration order
STREAK_MULTIPLIERS ==
    << [days |-> 3,  multiplier |-> 12],
       [days |-> 7,  multiplier |-> 15],
       [days |-> 30, multiplier |-> 20] >>

WindowDays == 60
StartingBalance == 100

\* ------------------------------------------------------------- floats
\* IEEE-754 double significands, value = M * 2^-52, M written in three
\* limbs of 18 bits, least significant first.
Limb == 262144

Mantissa(m) ==
    CASE m = 10 -> <<0, 0, 65536>>               \* 0x1.0000000000000p+0
      [] m = 12 -> <<209715, 52428, 78643>>      \* 0x1.3333333333333p+0
      [] m = 15 -> <<0, 0, 98304>>               \* 0x1.8000000000000p+0
      [] m = 20 -> <<0, 0, 131072>>              \* 0x1.0000000000000p+1

RECURSIVE BitLen(_)
BitLen(n) == IF n = 0 THEN 0 ELSE 1 + BitLen(n \div 2)

RECURSIVE Pow2(_)
Pow2(k) == IF k = 0 THEN 1 ELSE 2 * Pow2(k - 1)

\* exact product of an int and a double significand, as limbs
ExactProduct(base, m) ==
    LET M  == Mantissa(m)
        t0 == base * M[1]
        t1 == base * M[2] + (t0 \div Limb)
        t2 == base * M[3] + (t1 \div Limb)
    IN  << t0 % Limb, t1 % Limb, t2 >>

\* round-to-nearest, ties-to-even: does the 53-bit result round up
RoundUp(P, shift) ==
    IF shift = 0 THEN FALSE
    ELSE LET rem  == P[1] % Pow2(shift)
             half == Pow2(shift - 1)
             lsb  == (P[1] \div Pow2(shift)) % 2
         IN  rem > half \/ (rem = half /\ lsb = 1)

\* base_coins * streak_multiplier in double arithmetic, as limbs * 2^-52
float_mul(base, m) ==
    LET P     == ExactProduct(base, m)
        shift == IF BitLen(P[3]) > 17 THEN BitLen(P[3]) - 17 ELSE 0
        q0    == P[1] - (P[1] % Pow2(shift))
                   + (IF RoundUp(P, shift) THEN Pow2(shift) ELSE 0)
        q1    == P[2] + (q0 \div Limb)
        q2    == P[3] + (q1 \div Limb)
    IN  << q0 % Limb, q1 % Limb, q2 >>

python_ceil(x) ==
    IF x[1] = 0 /\ x[2] = 0 /\ x[3] % 65536 = 0
    THEN x[3] \div 65536 ELSE (x[3] \div 65536) + 1

\* int(x) of a non-negative double: truncation toward zero
python_int(x) == x[3] \div 65536

\* ------------------------------------------------------------- streak
\* created_at[:10] / datetime.utcnow().date(): the calendar day of a tick
DateOf(t) == t \div TicksPerDay

activity_dates(data) == { DateOf(t) : t \in data }

\* the `while True` walk: count days backward while the date is in the set
RECURSIVE Walk(_, _, _)
Walk(dates, current_date, streak) ==
    IF current_date \in dates
    THEN Walk(dates, current_date - 1, streak + 1)
    ELSE streak

WindowStart_day(clock) == clock - TicksPerDay

\* sixty_days_ago = utcnow() - timedelta(days=60): an instant, not a date
WindowStart(clock) == clock - WindowDays * TicksPerDay

WalkFromYesterday(dates, clock) == Walk(dates, DateOf(clock) - 1, 0)

WalkFromToday(dates, clock) == Walk(dates, DateOf(clock), 0)

\* calculate_user_streak on the created_at values of one user's records
StreakOf(stamps, clock) ==
    LET data == { t \in stamps : t >= WindowStart(clock) }
    IN  IF data = {} THEN 0
        ELSE WalkFromToday(activity_dates(data), clock)

\* ------------------------------------------------------------- multiplier
Range(seq) == { seq[i] : i \in DOMAIN seq }

RECURSIVE SelectSort(_, _)
SelectSort(items, reverse) ==
    IF items = {} THEN <<>>
    ELSE LET first == CHOOSE e \in items : \A o \in items :
                          IF reverse THEN e.days >= o.days ELSE e.days <= o.days
         IN  <<first>> \o SelectSort(items \ {first}, reverse)

sorted_unsorted(table, reverse) == table

\* sorted(STREAK_MULTIPLIERS.items(), reverse=...)
sorted(table, reverse) == SelectSort(Range(table), reverse)

RECURSIVE MultiplierLoop(_, _)
MultiplierLoop(items, streak_days) ==
    IF items = <<>> THEN 10
    ELSE IF streak_days >= Head(items).days THEN Head(items).multiplier
    ELSE MultiplierLoop(Tail(items), streak_days)

get_streak_multiplier_of(table, streak_days) ==
    MultiplierLoop(sorted(table, TRUE), streak_days)

get_streak_multiplier(streak_days) ==
    get_streak_multiplier_of(STREAK_MULTIPLIERS, streak_days)

MaxKey(table) == CHOOSE d \in { e.days : e \in Range(table) } :
                     \A e \in Range(table) : d >= e.days

Lookup(table, d) == (CHOOSE e \in Range(table) : e.days = d).multiplier

TargetTestInclusive(current_streak, days) == current_streak <= days

\* `if current_streak < days`
TargetTest(current_streak, days) == current_streak < days

RECURSIVE TargetLoop(_, _, _)
TargetLoop(items, table, current_streak) ==
    IF items = <<>>
    THEN [days_needed |-> 0, target_days |-> current_streak,
          bonus_multiplier |-> Lookup(table, MaxKey(table)), message |-> TRUE]
    ELSE IF TargetTest(current_streak, Head(items).days)
    THEN [days_needed |-> Head(items).days - current_streak,
          target_days |-> Head(items).days,
          bonus_multiplier |-> Head(items).multiplier, message |-> FALSE]
    ELSE TargetLoop(Tail(items), table, current_streak)

get_next_streak_target_of(table, current_streak) ==
    TargetLoop(sorted(table, FALSE), table, current_streak)

get_next_streak_target(current_streak) ==
    get_next_streak_target_of(STREAK_MULTIPLIERS, current_streak)

Reward_flat(activity_type, streak_days) ==
    LET base_coins        == ACTIVITY_COINS[activity_type]
        streak_multiplier == get_streak_multiplier(streak_days)
    IN  [base_coins |-> base_coins,
         streak_multiplier |-> streak_multiplier,
         final_coins |-> base_coins]

\* earn_coins steps 1-2: base coins, multiplier and final coins
Reward(activity_type, streak_days) ==
    LET base_coins        == ACTIVITY_COINS[activity_type]
        streak_multiplier == get_streak_multiplier(streak_days)
    IN  [base_coins |-> base_coins,
         streak_multiplier |-> streak_multiplier,
         final_coins |-> python_int(float_mul(base_coins, streak_multiplier))]

\* ------------------------------------------------------------- state
VARIABLES
    users,        \* ids of the rows of table `users`
    wallets,      \* table `wallets`: user_id -> balance
    activities,   \* table `activities`, in insertion order
    now,          \* datetime.utcnow(), in ticks
    faults,       \* store calls that have failed so far
    calls,        \* requests accepted so far
    call,         \* per worker: the request it is serving and its locals
    resp,         \* the response sent last
    granted,      \* per user: sum of final_coins of the Earn calls answered 200
    fn,           \* function applied in the function-level specification
    arg_stamps,   \* its inputs
    arg_streak,
    arg_type,
    arg_table,
    ret           \* its result

vars == << users, wallets, activities, now, faults, calls, call, resp, granted,
           fn, arg_stamps, arg_streak, arg_type, arg_table, ret >>

store == << users, wallets, activities >>
pure  == << fn, arg_stamps, arg_streak, arg_type, arg_table, ret >>

NoTarget == [days_needed |-> 0, target_days |-> 0,
             bonus_multiplier |-> 10, message |-> FALSE]

Idle ==
    [pc |-> "idle", op |-> "none", user |-> 0, activity_type |-> "none",
     base_coins |-> 0, streak_days |-> 0, streak_multiplier |-> 10,
     final_coins |-> 0, rec_id |-> 0, current_balance |-> 0,
     new_balance |-> 0, failed |-> FALSE, status |-> 0, detail |-> "",
     balance |-> 0, total_activities |-> 0, total_earned |-> 0,
     favorite_activity |-> "none", next_streak_bonus |-> NoTarget, seq |-> 0,
     streak_error |-> FALSE, today |-> 0,
     limit |-> 0, records |-> << >>, total |-> 0, password_ok |-> FALSE]

NoRet == [called |-> FALSE, streak |-> 0, multiplier |-> 10,
          reward |-> [base_coins |-> 0, streak_multiplier |-> 10,
                      final_coins |-> 0],
          target |-> NoTarget,
          pc |-> "query", current_date |-> 0, tests |-> 0]

\* The server starts on the store as earlier runs left it: some users have
\* registered (lines 32-46 of auth.py: a user row and a wallet of 100 coins)
\* and nobody has earned yet.
Init ==
    /\ users \in SUBSET Users
    /\ wallets = [u \in users |-> StartingBalance]
    /\ activities = << >>
    /\ now = 0
    /\ faults = 0
    /\ calls = 0
    /\ call = [p \in Procs |-> Idle]
    /\ resp = Idle
    /\ granted = [u \in Users |-> 0]
    /\ fn = "none"
    /\ arg_stamps = {}
    /\ arg_streak = 0
    /\ arg_type = "none"
    /\ arg_table = STREAK_MULTIPLIERS
    /\ ret = NoRet

\* ------------------------------------------------------------- store
Outcomes == {"ok", "raise", "empty"}

\* a store call may fail: it raises, or it returns no rows
Fault(outcome) ==
    IF outcome = "ok" THEN faults' = faults
    ELSE faults < MaxFaults /\ faults' = faults + 1

HasWallet(u) == u \in DOMAIN wallets

RowsOf(u) == { i \in DOMAIN activities : activities[i].user_id = u }

StampsOf(u) == { activities[i].created_at : i \in RowsOf(u) }

RECURSIVE SumCoins(_)
SumCoins(rows) ==
    IF rows = {} THEN 0
    ELSE LET i == CHOOSE r \in rows : TRUE
         IN  activities[i].coins_earned + SumCoins(rows \ {i})

upsert(table, row) ==
    IF table = << >> THEN << row >> ELSE [table EXCEPT ![Len(table)] = row]

\* supabase.table(...).insert(row): the row is added to the table
insert(table, row) == Append(table, row)

update_all(table, user_id, balance) == [u \in DOMAIN table |-> balance]

\* supabase.table('wallets').update({'balance': ...}).eq('user_id', user_id)
update(table, user_id, balance) == [table EXCEPT ![user_id] = balance]

new_balance_set(current_balance, final_coins) == final_coins

\* new_balance = current_balance + final_coins
new_balance_of(current_balance, final_coins) == current_balance + final_coins

calculate_user_streak_counted(user_id, outcome) ==
    IF outcome = "raise" THEN 0
    ELSE StreakOf(StampsOf(user_id) \cup {now}, now)

\* calculate_user_streak: any exception of the query is caught and gives 0
calculate_user_streak(user_id, outcome) ==
    IF outcome = "raise" THEN 0 ELSE StreakOf(StampsOf(user_id), now)

\* ------------------------------------------------------------- requests
\* a request is taken by the first free worker
Accepts(p) ==
    /\ calls < MaxCalls
    /\ call[p].pc = "idle"
    /\ \A q \in Procs : q < p => call[q].pc # "idle"

\* the handler goes on to its next store call
Step(p, rec) ==
    /\ call' = [call EXCEPT ![p] = rec]
    /\ resp' = resp

\* the handler returns or raises: the response is sent, the worker is free
Respond(p, rec) ==
    /\ resp' = [rec EXCEPT !.pc = "done", !.seq = resp.seq + 1]
    /\ call' = [call EXCEPT ![p] = Idle]

except_all(status, detail) == << 500, "internal error" >>

\* `except HTTPException: raise`: an HTTPException raised inside the try
\* block leaves the handler with its own status and detail
except_HTTPException(status, detail) == << status, detail >>

\* `except Exception` (or a return): status and detail as given
Finish(p, failed, status, detail) ==
    Respond(p, [call[p] EXCEPT !.status = status, !.detail = detail,
                               !.failed = @ \/ failed])

Raise(p, failed, status, detail) ==
    LET e == except_HTTPException(status, detail)
    IN  Finish(p, failed, e[1], e[2])

Tick ==
    /\ now < MaxNow
    /\ now' = now + 1
    /\ UNCHANGED << store, faults, calls, call, resp, granted, pure >>

\* ------------------------------------------------------------- POST /earn
\* The request arrives: get_current_user finds the user, the body is
\* validated against ActivityCreate (an invalid body is answered 422 and
\* earn_coins is never entered).
EarnRequestOf(p, types) ==
    /\ Accepts(p)
    /\ \E u \in users, t \in types :
          LET req == [Idle EXCEPT !.op = "earn", !.user = u,
                                  !.activity_type = t]
          IN  IF ActivityCreate_valid(t)
              THEN Step(p, [req EXCEPT !.pc = "earn_streak"])
              ELSE Respond(p, [req EXCEPT !.status = 422,
                                          !.detail = "validation error"])
    /\ calls' = calls + 1
    /\ UNCHANGED << store, now, faults, granted, pure >>

EarnRequest(p) == EarnRequestOf(p, RequestTypes)

\* lines 60-66: base coins, streak (one store query), multiplier, final coins
EarnStreak(p) ==
    /\ call[p].pc = "earn_streak"
    /\ \E outcome \in {"ok", "raise"} :
          /\ Fault(outcome)
          /\ IF call[p].activity_type \notin DOMAIN ACTIVITY_COINS
             THEN /\ outcome = "ok"
                  /\ Finish(p, FALSE, 500, "Failed to earn coins")  \* KeyError
             ELSE LET streak_days ==
                          calculate_user_streak(call[p].user, outcome)
                      r == Reward(call[p].activity_type, streak_days)
                  IN  Step(p, [call[p] EXCEPT
                                 !.pc = "earn_insert",
                                 !.failed = (outcome # "ok"),
                                 !.streak_error = (outcome # "ok"),
                                 !.today = DateOf(now),
                                 !.base_coins = r.base_coins,
                                 !.streak_days = streak_days,
                                 !.streak_multiplier = r.streak_multiplier,
                                 !.final_coins = r.final_coins])
    /\ UNCHANGED << store, now, calls, granted, pure >>

\* lines 69-80: insert the activity record
EarnInsert(p) ==
    /\ call[p].pc = "earn_insert"
    /\ \E outcome \in Outcomes :
          /\ Fault(outcome)
          /\ CASE outcome = "ok" ->
                    /\ activities' = insert(activities,
                          [user_id |-> call[p].user,
                           activity_type |-> call[p].activity_type,
                           coins_earned |-> call[p].final_coins,
                           streak_days |-> call[p].streak_days,
                           multiplier_applied |-> call[p].streak_multiplier,
                           created_at |-> now])
                    /\ Step(p, [call[p] EXCEPT
                                  !.pc = "earn_select",
                                  !.rec_id = Len(activities) + 1])
               [] outcome = "raise" ->
                    /\ Finish(p, TRUE, 500, "Failed to earn coins")
                    /\ UNCHANGED activities
               [] outcome = "empty" ->
                    /\ Raise(p, TRUE, 500, "Failed to record activity")
                    /\ UNCHANGED activities
    /\ UNCHANGED << users, wallets, now, calls, granted, pure >>

\* lines 83-89: read the balance and compute the new one in the handler
EarnSelect(p) ==
    /\ call[p].pc = "earn_select"
    /\ \E outcome \in {"ok", "raise"} :
          /\ Fault(outcome)
          /\ CASE outcome = "raise" ->
                    Finish(p, TRUE, 500, "Failed to earn coins")
               [] outcome = "ok" /\ ~HasWallet(call[p].user) ->
                    Raise(p, FALSE, 404, "Wallet not found")
               [] outcome = "ok" /\ HasWallet(call[p].user) ->
                    Step(p, [call[p] EXCEPT
                               !.pc = "earn_update",
                               !.current_balance = wallets[call[p].user],
                               !.new_balance =
                                   new_balance_of(wallets[call[p].user],
                                                  call[p].final_coins)])
    /\ UNCHANGED << store, now, calls, granted, pure >>

\* lines 91-107: write the new balance back and answer
EarnUpdate(p) ==
    /\ call[p].pc = "earn_update"
    /\ \E outcome \in Outcomes :
          /\ Fault(outcome)
          /\ CASE outcome = "ok" /\ HasWallet(call[p].user) ->
                    /\ wallets' = update(wallets, call[p].user,
                                         call[p].new_balance)
                    /\ granted' = [granted EXCEPT
                                     ![call[p].user] = @ + call[p].final_coins]
                    /\ Finish(p, FALSE, 200, "Coins earned successfully!")
               [] outcome = "ok" /\ ~HasWallet(call[p].user) ->
                    /\ Raise(p, FALSE, 500, "Failed to update balance")
                    /\ UNCHANGED << wallets, granted >>
               [] outcome = "raise" ->
                    /\ Finish(p, TRUE, 500, "Failed to earn coins")
                    /\ UNCHANGED << wallets, granted >>
               [] outcome = "empty" ->
                    /\ Raise(p, TRUE, 500, "Failed to update balance")
                    /\ UNCHANGED << wallets, granted >>
    /\ UNCHANGED << users, activities, now, calls, pure >>

\* ------------------------------------------------------------- POST /register
\* lines 24-26: the email must not be registered yet
RegisterRequest(p) ==
    /\ Accepts(p)
    /\ \E u \in Users, outcome \in {"ok", "raise"} :
          /\ Fault(outcome)
          /\ LET req == [Idle EXCEPT !.op = "register", !.user = u]
             IN  CASE outcome = "raise" ->
                        Respond(p, [req EXCEPT !.status = 500, !.failed = TRUE,
                                               !.detail = "Registration failed"])
                   [] outcome = "ok" /\ u \in users ->
                        Respond(p, [req EXCEPT !.status = 400,
                                        !.detail = "Email already registered"])
                   [] outcome = "ok" /\ u \notin users ->
                        Step(p, [req EXCEPT !.pc = "reg_user"])
    /\ calls' = calls + 1
    /\ UNCHANGED << store, now, granted, pure >>

\* lines 32-40: insert the user row (the email column is unique)
RegisterUser(p) ==
    /\ call[p].pc = "reg_user"
    /\ \E outcome \in Outcomes :
          /\ Fault(outcome)
          /\ CASE outcome = "ok" /\ call[p].user \notin users ->
                    /\ users' = users \cup {call[p].user}
                    /\ Step(p, [call[p] EXCEPT !.pc = "reg_wallet"])
               [] outcome = "ok" /\ call[p].user \in users ->
                    /\ Finish(p, TRUE, 500, "Registration failed")
                    /\ UNCHANGED users
               [] outcome = "raise" ->
                    /\ Finish(p, TRUE, 500, "Registration failed")
                    /\ UNCHANGED users
               [] outcome = "empty" ->
                    /\ Raise(p, TRUE, 500, "Failed to create user")
                    /\ UNCHANGED users
    /\ UNCHANGED << wallets, activities, now, calls, granted, pure >>

\* lines 43-59: insert the wallet with the starting balance, make the token
RegisterWallet(p) ==
    /\ call[p].pc = "reg_wallet"
    /\ \E outcome \in Outcomes :
          /\ Fault(outcome)
          /\ CASE outcome = "ok" ->
                    /\ wallets' = (call[p].user :> StartingBalance) @@ wallets
                    /\ Finish(p, FALSE, 200, "token")
               [] outcome = "raise" ->
                    /\ Finish(p, TRUE, 500, "Registration failed")
                    /\ UNCHANGED wallets
               [] outcome = "empty" ->
                    /\ Step(p, [call[p] EXCEPT !.pc = "reg_rollback",
                                               !.failed = TRUE])
                    /\ UNCHANGED wallets
    /\ UNCHANGED << users, activities, now, calls, granted, pure >>

\* lines 49-51: rollback, delete the user row
RegisterRollback(p) ==
    /\ call[p].pc = "reg_rollback"
    /\ \E outcome \in {"ok", "raise"} :
          /\ Fault(outcome)
          /\ CASE outcome = "ok" ->
                    /\ users' = users \ {call[p].user}
                    /\ Raise(p, FALSE, 500, "Failed to create wallet")
               [] outcome = "raise" ->
                    /\ Finish(p, TRUE, 500, "Registration failed")
                    /\ UNCHANGED users
    /\ UNCHANGED << wallets, activities, now, calls, granted, pure >>

\* ------------------------------------------------------------- GET /stats
StatsRequest(p) ==
    /\ Accepts(p)
    /\ \E u \in users :
          Step(p, [Idle EXCEPT !.pc = "stats_wallet", !.op = "stats",
                               !.user = u])
    /\ calls' = calls + 1
    /\ UNCHANGED << store, now, faults, granted, pure >>

\* lines 145-146: the balance, 0 when there is no wallet
StatsWallet(p) ==
    /\ call[p].pc = "stats_wallet"
    /\ \E outcome \in {"ok", "raise"} :
          /\ Fault(outcome)
          /\ IF outcome = "raise"
             THEN Finish(p, TRUE, 500, "Failed to get stats")
             ELSE Step(p, [call[p] EXCEPT
                             !.pc = "stats_activities",
                             !.balance = IF HasWallet(call[p].user)
                                         THEN wallets[call[p].user] ELSE 0])
    /\ UNCHANGED << store, now, calls, granted, pure >>

CountOf(rows, t) == Cardinality({ i \in rows : activities[i].activity_type = t })

\* max(activity_counts, key=activity_counts.get): the first key, in the
\* order the rows put the keys into the dict, that has the highest count
favorite_of(rows) ==
    IF rows = {} THEN "none"
    ELSE LET best  == { i \in rows : \A j \in rows :
                          CountOf(rows, activities[i].activity_type)
                            >= CountOf(rows, activities[j].activity_type) }
             first == CHOOSE i \in best : \A j \in best : i <= j
         IN  activities[first].activity_type

\* lines 149-153, 159-167: counts and sums over the user's records
StatsActivities(p) ==
    /\ call[p].pc = "stats_activities"
    /\ \E outcome \in {"ok", "raise"} :
          /\ Fault(outcome)
          /\ IF outcome = "raise"
             THEN Finish(p, TRUE, 500, "Failed to get stats")
             ELSE LET rows == RowsOf(call[p].user)
                  IN  Step(p, [call[p] EXCEPT
                                 !.pc = "stats_streak",
                                 !.total_activities = Cardinality(rows),
                                 !.total_earned = SumCoins(rows),
                                 !.favorite_activity = favorite_of(rows)])
    /\ UNCHANGED << store, now, calls, granted, pure >>

\* lines 156, 169-176: the current streak and the next milestone
StatsStreak(p) ==
    /\ call[p].pc = "stats_streak"
    /\ \E outcome \in {"ok", "raise"} :
          /\ Fault(outcome)
          /\ LET current_streak == calculate_user_streak(call[p].user, outcome)
             IN  Respond(p, [call[p] EXCEPT
                               !.status = 200,
                               !.detail = "stats",
                               !.failed = (outcome # "ok"),
                               !.streak_error = (outcome # "ok"),
                               !.today = DateOf(now),
                               !.streak_days = current_streak,
                               !.next_streak_bonus =
                                   get_next_streak_target(current_streak)])
    /\ UNCHANGED << store, now, calls, granted, pure >>

\* ------------------------------------------------------------- GET /activities/history
\* `limit: int = 10`: any integer is accepted as the query parameter
Limits == {-1, 0, 1, 2, 10}

HistoryRequest(p) ==
    /\ Accepts(p)
    /\ \E u \in users, limit \in Limits :
          Step(p, [Idle EXCEPT !.pc = "history_query", !.op = "history",
                               !.user = u, !.limit = limit])
    /\ calls' = calls + 1
    /\ UNCHANGED << store, now, faults, granted, pure >>

order_asc(rows) == { r \in rows : \A o \in rows :
                        activities[r].created_at <= activities[o].created_at }

\* .order('created_at', desc=True): the rows that may come first
order_desc(rows) == { r \in rows : \A o \in rows :
                         activities[r].created_at >= activities[o].created_at }

\* .order('created_at', desc=True).limit(k): every answer the store may
\* give, as sequences of row ids; rows with equal created_at come in any order
RECURSIVE Latest(_, _)
Latest(rows, k) ==
    IF k = 0 \/ rows = {} THEN { << >> }
    ELSE UNION { { <<r>> \o rest : rest \in Latest(rows \ {r}, k - 1) } :
                 r \in order_desc(rows) }

\* lines 123-136: one query; what the store does with a limit that is not
\* positive is not in the code: it answers no rows, or an error
HistoryQuery(p) ==
    /\ call[p].pc = "history_query"
    /\ \E outcome \in {"ok", "raise"} :
          /\ Fault(outcome)
          /\ CASE outcome = "raise" ->
                    Finish(p, TRUE, 500, "Failed to get history")
               [] outcome = "ok" /\ call[p].limit > 0 ->
                    \E rs \in Latest(RowsOf(call[p].user), call[p].limit) :
                       Respond(p, [call[p] EXCEPT !.status = 200,
                                                  !.detail = "history",
                                                  !.records = rs,
                                                  !.total = Len(rs)])
               [] outcome = "ok" /\ call[p].limit <= 0 ->
                    \E answer \in {"no rows", "error"} :
                       IF answer = "no rows"
                       THEN Respond(p, [call[p] EXCEPT !.status = 200,
                                                       !.detail = "history"])
                       ELSE Finish(p, FALSE, 500, "Failed to get history")
    /\ UNCHANGED << store, now, calls, granted, pure >>

\* ------------------------------------------------------------- GET /balance
BalanceRequest(p) ==
    /\ Accepts(p)
    /\ \E u \in users :
          Step(p, [Idle EXCEPT !.pc = "balance_query", !.op = "balance",
                               !.user = u])
    /\ calls' = calls + 1
    /\ UNCHANGED << store, now, faults, granted, pure >>

\* lines 33-45
BalanceQuery(p) ==
    /\ call[p].pc = "balance_query"
    /\ \E outcome \in {"ok", "raise"} :
          /\ Fault(outcome)
          /\ CASE outcome = "raise" ->
                    Finish(p, TRUE, 500, "Failed to get balance")
               [] outcome = "ok" /\ ~HasWallet(call[p].user) ->
                    Raise(p, FALSE, 404, "Wallet not found")
               [] outcome = "ok" /\ HasWallet(call[p].user) ->
                    Respond(p, [call[p] EXCEPT !.status = 200,
                                               !.detail = "wallet",
                                               !.balance = wallets[call[p].user]])
    /\ UNCHANGED << store, now, calls, granted, pure >>

\* ------------------------------------------------------------- POST /login
\* the credentials name any email, with the right password or a wrong one
LoginRequest(p, emails) ==
    /\ Accepts(p)
    /\ \E u \in emails, password_ok \in BOOLEAN :
          Step(p, [Idle EXCEPT !.pc = "login_query", !.op = "login",
                               !.user = u, !.password_ok = password_ok])
    /\ calls' = calls + 1
    /\ UNCHANGED << store, now, faults, granted, pure >>

\* lines 71-95
LoginQuery(p) ==
    /\ call[p].pc = "login_query"
    /\ \E outcome \in {"ok", "raise"} :
          /\ Fault(outcome)
          /\ CASE outcome = "raise" ->
                    Finish(p, TRUE, 500, "Login failed")
               [] outcome = "ok" /\ call[p].user \notin users ->
                    Raise(p, FALSE, 401, "Invalid credentials")
               [] outcome = "ok" /\ call[p].user \in users
                                  /\ ~call[p].password_ok ->
                    Raise(p, FALSE, 401, "Invalid credentials")
               [] outcome = "ok" /\ call[p].user \in users
                                  /\ call[p].password_ok ->
                    Finish(p, FALSE, 200, "token")
    /\ UNCHANGED << store, now, calls, granted, pure >>

\* ------------------------------------------------------------- system
Next ==
    \/ \E p \in Procs : RegisterRequest(p)
    \/ \E p \in Procs : RegisterUser(p)
    \/ \E p \in Procs : RegisterWallet(p)
    \/ \E p \in Procs : RegisterRollback(p)
    \/ \E p \in Procs : EarnRequest(p)
    \/ \E p \in Procs : EarnStreak(p)
    \/ \E p \in Procs : EarnInsert(p)
    \/ \E p \in Procs : EarnSelect(p)
    \/ \E p \in Procs : EarnUpdate(p)
    \/ \E p \in Procs : StatsRequest(p)
    \/ \E p \in Procs : StatsWallet(p)
    \/ \E p \in Procs : StatsActivities(p)
    \/ \E p \in Procs : StatsStreak(p)
    \/ Tick

Spec == Init /\ [][Next]_vars

\* ------------------------------------------------------------- functions
\* Function-level specification: the inputs of one helper are drawn from
\* bounded sets and the helper is applied to them.
Today == MaxRun + RecentDays

TicksOfDay(d) == { d * TicksPerDay + k : k \in 0..(TicksPerDay - 1) }

RecentTicks == UNION { TicksOfDay(Today - j) : j \in 0..(RecentDays - 1) }

\* one activity a day, at tick-of-day tod, on the len days before the recent ones
OldRun(len, tod) ==
    { (Today - RecentDays - j) * TicksPerDay + tod : j \in 0..(len - 1) }

Tables ==
    { t \in [1..Len(STREAK_MULTIPLIERS) -> Range(STREAK_MULTIPLIERS)] :
        Range(t) = Range(STREAK_MULTIPLIERS) }

Streaks == 0..MaxStreak \cup {1000}

FnInit ==
    /\ users = {}
    /\ wallets = << >>
    /\ activities = << >>
    /\ faults = 0
    /\ calls = 0
    /\ call = [p \in Procs |-> Idle]
    /\ resp = Idle
    /\ granted = [u \in Users |-> 0]
    /\ ret = NoRet
    /\ \/ /\ fn = "streak"
          /\ \E recent \in SUBSET RecentTicks, len \in 0..MaxRun,
                tod \in 0..(TicksPerDay - 1) :
                arg_stamps = recent \cup OldRun(len, tod)
          /\ now \in TicksOfDay(Today)
          /\ arg_streak = 0
          /\ arg_type = "none"
          /\ arg_table = STREAK_MULTIPLIERS
       \/ /\ fn \in {"multiplier", "target"}
          /\ arg_streak \in Streaks
          /\ arg_table \in Tables
          /\ arg_stamps = {}
          /\ now = 0
          /\ arg_type = "none"
       \/ /\ fn = "reward"
          /\ arg_streak \in Streaks
          /\ arg_type \in ActivityType
          /\ arg_table = STREAK_MULTIPLIERS
          /\ arg_stamps = {}
          /\ now = 0

Apply(f) ==
    /\ fn = f
    /\ ~ret.called
    /\ UNCHANGED << store, now, faults, calls, call, resp, granted,
                    fn, arg_stamps, arg_streak, arg_type, arg_table >>

CallStreak ==
    /\ Apply("streak")
    /\ ret' = [NoRet EXCEPT !.called = TRUE,
                            !.streak = StreakOf(arg_stamps, now)]

CallMultiplier ==
    /\ Apply("multiplier")
    /\ ret' = [NoRet EXCEPT !.called = TRUE,
                 !.multiplier = get_streak_multiplier_of(arg_table, arg_streak)]

CallTarget ==
    /\ Apply("target")
    /\ ret' = [NoRet EXCEPT !.called = TRUE,
                 !.target = get_next_streak_target_of(arg_table, arg_streak)]

CallReward ==
    /\ Apply("reward")
    /\ ret' = [NoRet EXCEPT !.called = TRUE,
                            !.reward = Reward(arg_type, arg_streak)]

FnNext == CallStreak \/ CallMultiplier \/ CallTarget \/ CallReward

FnSpec == FnInit /\ [][FnNext]_vars

\* ------------------------------------------------------------- the walk
\* calculate_user_streak step by step: the query, then one action for each
\* turn of the `while True` loop. ret holds the locals of the call: streak,
\* current_date and the number of membership tests made so far. MaxTests
\* caps that number in the model; no walk of the code comes near it.
MaxTests == 70

\* current_date -= timedelta(days=1)
previous_day_same(current_date) == current_date

previous_day(current_date) == current_date - 1

\* the rows the query of lines 196-201 returns
QueryData == { t \in arg_stamps : t >= WindowStart(now) }

\* some of the recent days have an activity at the start of the day, today
\* may have several, and a run of len days lies before the recent days
WalkInit ==
    /\ users = {}
    /\ wallets = << >>
    /\ activities = << >>
    /\ faults = 0
    /\ calls = 0
    /\ call = [p \in Procs |-> Idle]
    /\ resp = Idle
    /\ granted = [u \in Users |-> 0]
    /\ ret = NoRet
    /\ fn = "walk"
    /\ \E today \in SUBSET TicksOfDay(Today),
          days \in SUBSET (1..(RecentDays - 1)), len \in 0..MaxRun :
          arg_stamps = today \cup { (Today - j) * TicksPerDay : j \in days }
                             \cup OldRun(len, 0)
    /\ now \in TicksOfDay(Today)
    /\ arg_streak = 0
    /\ arg_type = "none"
    /\ arg_table = STREAK_MULTIPLIERS

\* lines 193-214: the query; no rows or an exception return 0 at once
WalkQuery ==
    /\ fn = "walk"
    /\ ret.pc = "query"
    /\ \E outcome \in {"ok", "raise"} :
          /\ Fault(outcome)
          /\ ret' = IF outcome = "raise" \/ QueryData = {}
                    THEN [ret EXCEPT !.pc = "done", !.called = TRUE,
                                     !.streak = 0]
                    ELSE [ret EXCEPT !.pc = "while", !.streak = 0,
                                     !.current_date = DateOf(now)]
    /\ UNCHANGED << store, now, calls, call, resp, granted,
                    fn, arg_stamps, arg_streak, arg_type, arg_table >>

\* lines 216-224: one membership test of the loop
WalkTest ==
    /\ fn = "walk"
    /\ ret.pc = "while"
    /\ ret.tests < MaxTests
    /\ ret' = IF ret.current_date \in activity_dates(QueryData)
              THEN [ret EXCEPT !.tests = @ + 1,
                               !.streak = @ + 1,
                               !.current_date = previous_day(@)]
              ELSE [ret EXCEPT !.tests = @ + 1,
                               !.pc = "done", !.called = TRUE]
    /\ UNCHANGED << store, now, faults, calls, call, resp, granted,
                    fn, arg_stamps, arg_streak, arg_type, arg_table >>

WalkNext == WalkQuery \/ WalkTest

\* the interpreter keeps running the call: a step that can be taken is taken
WalkSpec == WalkInit /\ [][WalkNext]_vars /\ WF_vars(WalkNext)

\* ------------------------------------------------------------- one client
\* Scenario specification: besides the users of Users the store holds a
\* long-standing user with a history of activities, and one client sends
\* its requests one after the other. Day 0 starts at tick 0; the history
\* lies on the days before it and the clock stands at the start of the day
\* before day 0.
MaxHistory == 2

Veteran == NumUsers + 1

Accounts == Users \cup {Veteran}

ClientTypes == {"pomodoro_25min", "deep_work_2h", "unknown"}

HistoryTypes == {"pomodoro_25min", "exercise_30min"}

HistoryDays == {-2, -1}

\* the record earn_coins inserts for the first activity of a day (streak 0)
Row(u, t, day) ==
    [user_id |-> u, activity_type |-> t, coins_earned |-> ACTIVITY_COINS[t],
     streak_days |-> 0, multiplier_applied |-> 10,
     created_at |-> day * TicksPerDay]

\* up to MaxHistory records, in the order of their insertion
ShortHistories ==
    UNION { { [i \in 1..n |-> Row(Veteran, h[i][1], h[i][2])] :
              h \in { g \in [1..n -> HistoryTypes \X HistoryDays] :
                        \A i \in 1..(n - 1) : g[i][2] <= g[i + 1][2] } } :
            n \in 0..MaxHistory }

\* one activity on each of the 6 days before day 0
WeekHistory == [i \in 1..6 |-> Row(Veteran, "pomodoro_25min", i - 7)]

Histories == ShortHistories \cup {WeekHistory}

ClientInit ==
    /\ users \in { registered \cup {Veteran} : registered \in SUBSET Users }
    /\ activities \in Histories
    /\ wallets = [u \in users |-> StartingBalance + SumCoins(RowsOf(u))]
    /\ now = -TicksPerDay
    /\ faults = 0
    /\ calls = 0
    /\ call = [p \in Procs |-> Idle]
    /\ resp = Idle
    /\ granted = [u \in Accounts |-> 0]
    /\ fn = "none"
    /\ arg_stamps = {}
    /\ arg_streak = 0
    /\ arg_type = "none"
    /\ arg_table = STREAK_MULTIPLIERS
    /\ ret = NoRet

\* the client sends a single request
ClientNext ==
    \/ \E p \in Procs : calls = 0 /\ RegisterRequest(p)
    \/ \E p \in Procs : calls = 0 /\ LoginRequest(p, Accounts)
    \/ \E p \in Procs : calls = 0 /\ EarnRequestOf(p, ClientTypes)
    \/ \E p \in Procs : calls = 0 /\ BalanceRequest(p)
    \/ \E p \in Procs : calls = 0 /\ HistoryRequest(p)
    \/ \E p \in Procs : calls = 0 /\ StatsRequest(p)
    \/ \E p \in Procs : RegisterUser(p)
    \/ \E p \in Procs : RegisterWallet(p)
    \/ \E p \in Procs : RegisterRollback(p)
    \/ \E p \in Procs : LoginQuery(p)
    \/ \E p \in Procs : EarnStreak(p)
    \/ \E p \in Procs : EarnInsert(p)
    \/ \E p \in Procs : EarnSelect(p)
    \/ \E p \in Procs : EarnUpdate(p)
    \/ \E p \in Procs : BalanceQuery(p)
    \/ \E p \in Procs : HistoryQuery(p)
    \/ \E p \in Procs : StatsWallet(p)
    \/ \E p \in Procs : StatsActivities(p)
    \/ \E p \in Procs : StatsStreak(p)
    \/ Tick

ClientSpec == ClientInit /\ [][ClientNext]_vars

\* ------------------------------------------------------------- read requests
\* The same store under read requests only, sent one after the other.
Sequential == \A q \in Procs : call[q].pc = "idle"

ReadNext ==
    \/ \E p \in Procs : Sequential /\ HistoryRequest(p)
    \/ \E p \in Procs : Sequential /\ StatsRequest(p)
    \/ \E p \in Procs : HistoryQuery(p)
    \/ \E p \in Procs : StatsWallet(p)
    \/ \E p \in Procs : StatsActivities(p)
    \/ \E p \in Procs : StatsStreak(p)
    \/ Tick

ReadSpec == ClientInit /\ [][ReadNext]_vars

\* ------------------------------------------------------------- concurrent Earn
\* The long-standing user alone, active on each of the 6 days before day 0,
\* sends Earn requests which the workers serve at the same time: the steps
\* of the handlers interleave in every order. The requests overlap within
\* one instant, on the last day of the history or on the day after it.
EarnInit ==
    /\ users = {Veteran}
    /\ activities = WeekHistory
    /\ wallets = [u \in users |-> StartingBalance + SumCoins(RowsOf(u))]
    /\ now \in {-TicksPerDay, 0}
    /\ faults = 0
    /\ calls = 0
    /\ call = [p \in Procs |-> Idle]
    /\ resp = Idle
    /\ granted = [u \in Accounts |-> 0]
    /\ fn = "none"
    /\ arg_stamps = {}
    /\ arg_streak = 0
    /\ arg_type = "none"
    /\ arg_table = STREAK_MULTIPLIERS
    /\ ret = NoRet

EarnNext ==
    \/ \E p \in Procs : EarnRequestOf(p, ClientTypes)
    \/ \E p \in Procs : EarnStreak(p)
    \/ \E p \in Procs : EarnInsert(p)
    \/ \E p \in Procs : EarnSelect(p)
    \/ \E p \in Procs : EarnUpdate(p)

EarnSpec == EarnInit /\ [][EarnNext]_vars

\* ------------------------------------------------------------- properties
\* the response sent last answers an Earn request
EarnAnswered == resp.op = "earn" /\ resp.pc = "done"

EarnInProgress(u) ==
    \E p \in Procs : call[p].op = "earn" /\ call[p].user = u

\* C1: once every Earn of a user has finished, the balance is the starting
\* balance plus the coins of all the Earn calls that succeeded: no update is
\* lost, whatever the interleaving.
C1_NoLostUpdate ==
    \A u \in DOMAIN wallets :
        ~EarnInProgress(u) => wallets[u] = StartingBalance + granted[u]

\* C2: in every state a reader can observe, a wallet's balance is the
\* starting balance plus the sum of coins_earned over its user's records.
C2_BalanceMatchesLedger ==
    \A u \in DOMAIN wallets :
        wallets[u] = StartingBalance + SumCoins(RowsOf(u))

\* C3: an Earn that has returned an error has left no activity record of
\* its own in the ledger.
C3_FailedEarnLeavesNoRecord ==
    (EarnAnswered /\ resp.status # 200) => resp.rec_id \notin DOMAIN activities

\* C4: an Earn request with an unknown activity type never enters the
\* handler: it is answered with a validation error (422) in the step that
\* accepts it, and neither the wallets nor the ledger change.
C4_UnknownTypeRejected ==
    [][ /\ \A p \in Procs :
              call'[p].op = "earn" => call'[p].activity_type \in ActivityType
        /\ (/\ resp'.seq # resp.seq
            /\ resp'.op = "earn"
            /\ resp'.activity_type \notin ActivityType)
           => (/\ resp'.status = 422
               /\ calls' = calls + 1
               /\ wallets' = wallets
               /\ activities' = activities) ]_vars

C4_Witness ==
    /\ EarnAnswered
    /\ resp.activity_type = "unknown"
    /\ resp.status = 422
    /\ HasWallet(resp.user)
    /\ activities # << >>

\* C5: an Earn for a user without a wallet never succeeds, and when the
\* request is valid and no store call of it failed it is answered
\* 404 "Wallet not found".
C5_NoWalletIs404 ==
    (EarnAnswered /\ ~HasWallet(resp.user))
        => /\ resp.status # 200
           /\ (resp.activity_type \in ActivityType /\ ~resp.failed)
                 => (resp.status = 404 /\ resp.detail = "Wallet not found")

C5_Witness ==
    /\ EarnAnswered
    /\ ~HasWallet(resp.user)
    /\ ~resp.failed
    /\ resp.status = 404

\* ------------------------------------------------------------- function properties
Returned(f) == fn = f /\ ret.called

\* number of consecutive calendar days ending at `today` that are in dates
RunEndingAt(dates, today) ==
    CHOOSE k \in 0..Cardinality(dates) :
        /\ \A i \in 0..(k - 1) : (today - i) \in dates
        /\ (today - k) \notin dates

ArgRun == RunEndingAt(activity_dates(arg_stamps), DateOf(now))

\* C6 (as stated): for every set of timestamps the streak is the length of
\* the run of consecutive days with an activity that ends today.
C6_StreakIsRun == Returned("streak") => ret.streak = ArgRun

\* C6 (amended): the same, for every history whose run ending today is no
\* longer than the 60-day window; 0 when today has no activity, 0 for an
\* empty history, several activities on a day count once.
C6_StreakIsRunInWindow ==
    (Returned("streak") /\ ArgRun <= WindowDays) => ret.streak = ArgRun

C6_Witness ==
    /\ Returned("streak")
    /\ ret.streak = 5
    /\ TicksOfDay(Today) \subseteq arg_stamps

\* C7: the streak never exceeds the 60-day window, and is exactly 60 for a
\* run of more than 60 days.
C7_StreakClampedToWindow ==
    Returned("streak") =>
        /\ ret.streak <= WindowDays
        /\ ArgRun > WindowDays => ret.streak = WindowDays

\* the multiplier of the highest threshold that is <= s, 10 (1.0) if none
TierOf(entries, s) ==
    LET below == { e \in entries : e.days <= s }
    IN  IF below = {} THEN 10
        ELSE (CHOOSE e \in below : \A o \in below : e.days >= o.days).multiplier

\* C8: get_streak_multiplier returns the multiplier of the highest
\* threshold <= streak, 1.0 below every threshold, whatever the declaration
\* order of the table: 0..2 -> 1.0, 3..6 -> 1.2, 7..29 -> 1.5, 30.. -> 2.0.
C8_MultiplierTier ==
    Returned("multiplier") =>
        /\ ret.multiplier = TierOf(Range(arg_table), arg_streak)
        /\ ret.multiplier = CASE arg_streak <= 2  -> 10
                              [] arg_streak <= 6  -> 12
                              [] arg_streak <= 29 -> 15
                              [] OTHER            -> 20

C8_Witness ==
    /\ Returned("multiplier")
    /\ arg_table[1].days = 3 /\ arg_table[2].days = 30
    /\ arg_streak = 30
    /\ ret.multiplier = 20

\* C9: final coins are floor(base * multiplier) with the multiplier as the
\* exact rational: never rounded up, a function of (activity type, streak);
\* 50 at 1.5 is 75, 75 at 1.2 is 90, 75 at 1.5 is 112.
C9_FinalCoinsFloor ==
    Returned("reward") =>
        /\ ret.reward.base_coins = ACTIVITY_COINS[arg_type]
        /\ ret.reward.streak_multiplier
              = TierOf(Range(STREAK_MULTIPLIERS), arg_streak)
        /\ ret.reward.final_coins
              = (ret.reward.base_coins * ret.reward.streak_multiplier) \div 10
        /\ (arg_type = "pomodoro_25min" /\ arg_streak = 7)
              => ret.reward.final_coins = 75
        /\ (arg_type = "exercise_30min" /\ arg_streak = 3)
              => ret.reward.final_coins = 90
        /\ (arg_type = "exercise_30min" /\ arg_streak = 7)
              => ret.reward.final_coins = 112

C9_Witness ==
    /\ Returned("reward")
    /\ arg_type = "exercise_30min"
    /\ ret.reward.streak_multiplier = 15
    /\ ret.reward.final_coins = 112

\* C10: get_next_streak_target returns the smallest threshold above the
\* current streak with its multiplier and the days still needed; at or above
\* the largest threshold (30) it returns 0 days needed and multiplier 2.0.
C10_NextTarget ==
    Returned("target") =>
        LET above == { e \in Range(arg_table) : e.days > arg_streak }
            t     == CHOOSE e \in above : \A o \in above : e.days <= o.days
        IN  /\ above # {} =>
                 /\ ret.target.target_days = t.days
                 /\ ret.target.bonus_multiplier = t.multiplier
                 /\ ret.target.days_needed = t.days - arg_streak
                 /\ ~ret.target.message
            /\ (above = {}) <=> (arg_streak >= 30)
            /\ arg_streak >= 30 =>
                 /\ ret.target.days_needed = 0
                 /\ ret.target.bonus_multiplier = 20
                 /\ ret.target.message

C10_Witness ==
    /\ Returned("target")
    /\ arg_table # STREAK_MULTIPLIERS
    /\ arg_streak = 30
    /\ ret.target.days_needed = 0
    /\ ret.target.bonus_multiplier = 20

\* ------------------------------------------------------------- failure properties
\* C11: a failed store read inside calculate_user_streak propagates as an
\* error: no handler goes on with a streak computed from the failed read, an
\* Earn whose streak read failed records nothing and grants nothing, and no
\* Earn or GetStats whose streak read failed is answered 200.
C11_StreakFailurePropagates ==
    /\ \A p \in Procs : ~call[p].streak_error
    /\ (resp.pc = "done" /\ resp.streak_error)
          => /\ resp.status # 200
             /\ resp.rec_id = 0
             /\ resp.new_balance = 0

RegisterAnswered == resp.op = "register" /\ resp.pc = "done"

RegisterInProgress(u) ==
    \E p \in Procs : call[p].op = "register" /\ call[p].user = u

\* C12: once a registration call has returned (and no other registration of
\* the same user is still running), whether it succeeded or failed at any
\* step, the user row exists if and only if the user's wallet exists.
C12_UserIffWallet ==
    (RegisterAnswered /\ ~RegisterInProgress(resp.user))
        => (resp.user \in users <=> HasWallet(resp.user))

\* ------------------------------------------------------------- single-request properties
\* the rows user u had before row id was inserted
PriorRows(u, id) == { i \in RowsOf(u) : i < id }

\* a response was sent in this step
Answered(op) == resp'.seq # resp.seq /\ resp'.op = op

\* C13: an Earn running alone appends exactly one record, its own: the
\* ledger changes only by the one insert of a handler that has not inserted
\* yet, and the row carries the handler's computed fields. When it is answered
\* 200 the balance has grown by exactly the returned final coins and the
\* returned new balance is the balance now stored. For a user with no prior
\* activity and the starting balance, Earn(pomodoro) gives streak 0,
\* multiplier 1.0, 50 coins and takes the balance from 100 to 150.
C13_EarnAlone ==
    [][ /\ activities' # activities =>
              \E p \in Procs :
                 /\ call[p].op = "earn" /\ call[p].rec_id = 0
                 /\ call'[p].rec_id = Len(activities) + 1
                 /\ activities' = Append(activities,
                       [user_id |-> call[p].user,
                        activity_type |-> call[p].activity_type,
                        coins_earned |-> call[p].final_coins,
                        streak_days |-> call[p].streak_days,
                        multiplier_applied |-> call[p].streak_multiplier,
                        created_at |-> now])
        /\ (Answered("earn") /\ resp'.status = 200) =>
              LET u == resp'.user
              IN  /\ resp'.rec_id \in RowsOf(u)
                  /\ activities[resp'.rec_id].coins_earned = resp'.final_coins
                  /\ wallets'[u] = wallets[u] + resp'.final_coins
                  /\ resp'.new_balance = wallets'[u]
                  /\ (/\ PriorRows(u, resp'.rec_id) = {}
                      /\ wallets[u] = StartingBalance
                      /\ resp'.activity_type = "pomodoro_25min")
                        => /\ resp'.streak_days = 0
                           /\ resp'.streak_multiplier = 10
                           /\ resp'.final_coins = 50
                           /\ wallets'[u] = 150 ]_vars

C13_Witness ==
    /\ EarnAnswered
    /\ resp.status = 200
    /\ resp.user \in Users
    /\ resp.activity_type = "pomodoro_25min"
    /\ wallets[resp.user] = 150
    /\ Len(activities) = 7

\* C14: an Earn(deep_work) by a user whose history has an activity on each of
\* the 6 days before today and none yet today (today's activity is the one
\* submitted) gives streak 7, multiplier 1.5 and 300 coins.
C14_SeventhDay ==
    (/\ EarnAnswered
     /\ resp.status = 200
     /\ resp.activity_type = "deep_work_2h"
     /\ ~resp.streak_error
     /\ LET prior == { DateOf(activities[i].created_at) :
                         i \in PriorRows(resp.user, resp.rec_id) }
        IN  /\ resp.today \notin prior
            /\ RunEndingAt(prior, resp.today - 1) = 6)
        => /\ resp.streak_days = 7
           /\ resp.streak_multiplier = 15
           /\ resp.final_coins = 300

\* ------------------------------------------------------------- read properties
\* the six fields of a GetStats answer
StatsResult(r) ==
    << r.balance, r.total_activities, r.total_earned, r.streak_days,
       r.favorite_activity, r.next_streak_bonus >>

\* two GetStats calls of one user answered one after the other, with no
\* request between or during them, both with all their store reads done
TwoStats ==
    /\ Answered("stats")
    /\ resp.op = "stats" /\ resp.pc = "done"
    /\ resp'.user = resp.user
    /\ resp.status = 200 /\ resp'.status = 200
    /\ ~resp.streak_error /\ ~resp'.streak_error

StatsAnswered == resp.op = "stats" /\ resp.pc = "done" /\ resp.status = 200

\* the activity-type table in its declaration order
TableOrder ==
    << "pomodoro_25min", "exercise_30min", "study_1h", "deep_work_2h" >>

\* the type with the highest count that comes first in the table
FirstInTable(rows) ==
    LET top == { k \in DOMAIN TableOrder : \A j \in DOMAIN TableOrder :
                   CountOf(rows, TableOrder[k]) >= CountOf(rows, TableOrder[j]) }
    IN  TableOrder[CHOOSE k \in top : \A j \in top : k <= j]

\* C16: the favourite activity GetStats reports is the type with the highest
\* record count and, among several with that count, the one that comes first
\* in the activity-type table, whatever the order of the records.
C16_FavoriteInTableOrder ==
    (StatsAnswered /\ RowsOf(resp.user) # {})
        => resp.favorite_activity = FirstInTable(RowsOf(resp.user))

HistoryAnswered == resp.op = "history" /\ resp.pc = "done"

\* C17: GetHistory with a limit that is zero or negative fails with a
\* validation error (422) and returns no records, and a limit that is not
\* positive never reaches the store.
C17_NonPositiveLimitRejected ==
    /\ \A p \in Procs : call[p].pc = "history_query" => call[p].limit > 0
    /\ (HistoryAnswered /\ resp.limit <= 0)
          => (resp.status = 422 /\ resp.records = << >>)

Min(a, b) == IF a <= b THEN a ELSE b

\* C18: with a positive limit GetHistory returns exactly min(limit, n) of
\* the user's n records, each once, all of that user, the ones with the
\* latest created_at, in descending created_at order, and `total` is the
\* number of records returned.
C18_HistoryLatest ==
    (HistoryAnswered /\ resp.status = 200 /\ resp.limit > 0) =>
        LET rows == RowsOf(resp.user)
            rs   == resp.records
            at(i) == activities[i].created_at
        IN  /\ Len(rs) = Min(resp.limit, Cardinality(rows))
            /\ \A i \in DOMAIN rs : rs[i] \in rows
            /\ \A i, j \in DOMAIN rs : i # j => rs[i] # rs[j]
            /\ \A i, j \in DOMAIN rs : i < j => at(rs[i]) >= at(rs[j])
            /\ \A o \in rows \ Range(rs) :
                  \A i \in DOMAIN rs : at(o) <= at(rs[i])
            /\ resp.total = Len(rs)

C18_Witness ==
    /\ HistoryAnswered /\ resp.status = 200
    /\ resp.limit = 1
    /\ Len(activities) = 2
    /\ activities[1].created_at < activities[2].created_at
    /\ resp.records = << 2 >>
    /\ resp.total = 1

\* ------------------------------------------------------------- store properties
\* C19: the ledger is append-only: whatever step the system takes (of Earn,
\* GetStats, GetHistory, GetBalance, register or login), every record that
\* is in the ledger stays in it with every field unchanged.
C19_AppendOnly ==
    [][ \A i \in DOMAIN activities :
           /\ i \in DOMAIN activities'
           /\ activities'[i] = activities[i] ]_vars

C19_Witness ==
    /\ EarnAnswered
    /\ resp.status # 200
    /\ resp.rec_id = Len(activities)
    /\ resp.rec_id = 3
    /\ activities[resp.rec_id].user_id = resp.user

\* the handler of an Earn request of user u takes this step
EarnStepOf(u) ==
    \E p \in Procs : /\ call[p].op = "earn" /\ call[p].user = u
                     /\ call'[p] # call[p]

\* C20: every balance is a non-negative integer in every state, a wallet
\* that exists keeps existing, its balance changes only in a step of an Earn
\* of its own user, and the records of a user grow only in a step of an Earn
\* of that user: an Earn of user A never changes the wallet or the ledger of
\* user B.
C20_BalanceOwnedByEarn ==
    [][ /\ \A u \in DOMAIN wallets : wallets[u] \in Nat
        /\ \A u \in DOMAIN wallets' : wallets'[u] \in Nat
        /\ \A u \in DOMAIN wallets :
              /\ u \in DOMAIN wallets'
              /\ wallets'[u] # wallets[u] => EarnStepOf(u)
        /\ \A u \in Accounts :
              { activities'[i] : i \in { j \in DOMAIN activities' :
                                           activities'[j].user_id = u } }
                 # { activities[i] : i \in RowsOf(u) }
              => EarnStepOf(u) ]_vars

C20_Witness ==
    /\ EarnAnswered
    /\ resp.status = 200
    /\ resp.user = Veteran
    /\ wallets[Veteran] = resp.current_balance + resp.final_coins
    /\ \E u \in Users : HasWallet(u) /\ wallets[u] = StartingBalance

\* ------------------------------------------------------------- ledger properties
\* C21: every record of the ledger is reproducible from its own audit
\* fields: its multiplier_applied is get_streak_multiplier of its stored
\* streak_days and its coins_earned is the floor of the base coins of its
\* activity_type times that multiplier (in tenths), also for the records
\* that Earn calls served at the same time have written.
C21_RecordReproducible ==
    \A i \in DOMAIN activities :
        LET r == activities[i]
        IN  /\ r.multiplier_applied = get_streak_multiplier(r.streak_days)
            /\ r.coins_earned =
                   (ACTIVITY_COINS[r.activity_type] * r.multiplier_applied)
                       \div 10

\* two handlers in flight together have both written their record, each
\* with the bonus of a streak of 6 days
C21_Witness ==
    /\ Len(activities) = 8
    /\ activities[7].streak_days = 6
    /\ activities[7].multiplier_applied = 12
    /\ activities[8].activity_type = "deep_work_2h"
    /\ activities[8].multiplier_applied = 12
    /\ activities[8].coins_earned = 240
    /\ \E p, q \in Procs :
          /\ call[p].pc = "earn_select" /\ call[p].rec_id = 7
          /\ call[q].pc = "earn_select" /\ call[q].rec_id = 8

\* C22: within one Earn call the streak is read from the ledger before the
\* call's own record is inserted: the read leaves the ledger alone and finds
\* the run of days that ends today in the records present then (0 when the
\* read fails), the record inserted afterwards stores that value, and the
\* 200 answer returns the value the record stores.
C22_StreakReadBeforeInsert ==
    [][\A p \in Procs :
          /\ (call[p].pc = "earn_streak" /\ call'[p].pc = "earn_insert") =>
                /\ call[p].rec_id = 0
                /\ activities' = activities
                /\ call'[p].streak_days =
                       IF call'[p].streak_error THEN 0
                       ELSE RunEndingAt(
                                activity_dates(StampsOf(call[p].user)),
                                DateOf(now))
          /\ (call[p].pc = "earn_insert" /\ call'[p].pc = "earn_select") =>
                /\ Len(activities') = Len(activities) + 1
                /\ call'[p].rec_id = Len(activities')
                /\ activities'[Len(activities')].streak_days
                       = call[p].streak_days
                /\ call'[p].streak_days = call[p].streak_days
          /\ (Answered("earn") /\ resp'.status = 200) =>
                resp'.streak_days = activities'[resp'.rec_id].streak_days
      ]_vars

\* after 6 days of activity an Earn on the next day is answered: its record
\* lies on that day, and both the record and the answer carry the streak
\* read before the insert, 0
C22_Witness ==
    /\ EarnAnswered
    /\ resp.status = 200
    /\ resp.user = Veteran
    /\ resp.rec_id = 7
    /\ ~resp.streak_error
    /\ resp.today = 0
    /\ DateOf(activities[7].created_at) = 0
    /\ { DateOf(activities[i].created_at) : i \in 1..6 } = (-6)..(-1)
    /\ activities[7].streak_days = 0
    /\ resp.streak_days = 0

\* the records of user u that were in the ledger before record id and lie
\* on calendar day d
PriorRowsOn(u, id, d) ==
    { i \in PriorRows(u, id) : DateOf(activities[i].created_at) = d }

\* the answer carries no streak bonus
Unrewarded(r) ==
    /\ r.streak_days = 0
    /\ r.streak_multiplier = 10
    /\ r.final_coins = ACTIVITY_COINS[r.activity_type]
    /\ activities[r.rec_id].coins_earned = ACTIVITY_COINS[r.activity_type]

\* C23 as claimed: the first Earn a user completes on a calendar day, the
\* one whose record is the user's first record of that day, is rewarded
\* with streak 0 and multiplier 1.0, final coins = base coins.
C23_FirstOfDayUnrewarded ==
    ( /\ EarnAnswered
      /\ resp.status = 200
      /\ PriorRowsOn(resp.user, resp.rec_id,
                     DateOf(activities[resp.rec_id].created_at)) = {} )
        => Unrewarded(resp)

\* C23 amended: an Earn whose streak is read on a calendar day on which the
\* ledger holds no earlier record of the user is rewarded with streak 0 and
\* multiplier 1.0, final coins = base coins, however many days of activity
\* precede that day: a bonus needs a record on the day of the read.
C23_NoRecordOnReadDayUnrewarded ==
    ( /\ EarnAnswered
      /\ resp.status = 200
      /\ PriorRowsOn(resp.user, resp.rec_id, resp.today) = {} )
        => Unrewarded(resp)

\* after 6 days of activity the first Earn of the next day, read and
\* recorded on that day, earns the base coins of two hours of deep work
C23_Witness ==
    /\ EarnAnswered
    /\ resp.status = 200
    /\ resp.user = Veteran
    /\ resp.activity_type = "deep_work_2h"
    /\ Len(activities) = 7
    /\ ~resp.streak_error
    /\ resp.today = 0
    /\ DateOf(activities[7].created_at) = 0
    /\ PriorRowsOn(Veteran, 7, -1) # {}
    /\ resp.final_coins = 200

\* C24: a wallet's stored balance never decreases: in every interleaving of
\* the Earn calls of a user, each write to the wallet stores a balance that
\* is greater than or equal to the balance stored just before the write.
C24_BalanceNeverDecreases ==
    [][\A u \in DOMAIN wallets :
          u \in DOMAIN wallets' => wallets'[u] >= wallets[u]]_vars

\* ------------------------------------------------------------- walk properties
\* the number of distinct dates among the rows the query returned
DistinctDates == Cardinality(activity_dates(QueryData))

\* C25: the backward walk of calculate_user_streak always terminates: for a
\* history with d distinct activity dates the call never makes more than
\* d + 1 membership tests, its count stays between 0 and d, and it
\* eventually returns, a value between 0 and d.
C25_WalkTerminates ==
    /\ [](/\ ret.tests <= DistinctDates + 1
          /\ ret.streak \in 0..DistinctDates)
    /\ <>Returned("walk")

\* a walk over 60 distinct dates has returned 60 after 61 tests
C25_Witness ==
    /\ Returned("walk")
    /\ DistinctDates = WindowDays
    /\ ret.tests = WindowDays + 1
    /\ ret.streak = WindowDays

====
